---- MODULE Spec2Model ----
(***************************************************************************)
(* A model of the FIQ control tower's data core: the date normaliser       *)
(* parseDate and the aggregation engine processDataForDashboard            *)
(* (utils/dataProcessor.ts), together with the ingestion step              *)
(* DataMappingModal.handleConfirm that produces the rows they consume, and *)
(* the upload and column-mapping dialogue of App and DataMappingModal, and  *)
(* the chat components FloatingAiChat and AiAnalyst, the serverless        *)
(* function /api/gemini, the status filter of App's orders table, and the  *)
(* API key handling of services/geminiService.ts.                          *)
(*                                                                         *)
(* JavaScript numbers are modelled as exact rationals with the IEEE        *)
(* specials NaN and +/-Infinity; a time value is counted in minutes        *)
(* instead of milliseconds (every time value the program builds is a       *)
(* whole number of minutes), so that it fits TLC's integers.               *)
(***************************************************************************)
EXTENDS Integers, Sequences, FiniteSets, TLC

VARIABLES
    data,        \* the row collection handed to processDataForDashboard
    result,      \* what the last call returned (App's initial state before)
    prev,        \* what the call before the last one returned
    calls,       \* number of calls of processDataForDashboard that returned
    pc,          \* "ready" | "returned" | "threw"
    dateString,  \* the argument of parseDate
    tz,          \* the host's local time-zone offset, minutes east of UTC
    parsed,      \* what parseDate returned
    ppc,         \* "ready" | "returned" | "threw"
    genericParse, \* what new Date(dateString) produced in that call (isoAttempt)
    parsing,     \* App: the files whose Papa.parse has not completed yet, as started
    uploads,     \* App: number of files uploaded so far
    lastFile,    \* handleFileUpload: the file of its latest call (history)
    unmappedData, \* App: the parsed CSV rows, as Papa delivered them
    csvHeaders,  \* App: the keys of the first parsed row
    originalData, \* App: the rows onConfirm delivered
    isMappingModalOpen, \* App: DataMappingModal is mounted
    uploadError, \* App: the error banner's text, "" for null
    mapping,     \* DataMappingModal: canonical field -> CSV column
    previewData, \* DataMappingModal: the mapped first rows
    showPreview, \* DataMappingModal: the preview is shown
    changes,     \* DataMappingModal: number of selections made so far
    chatComponent, \* which chat component this is: "FloatingAiChat" | "AiAnalyst"
    isDataLoaded, \* chat: the isDataLoaded prop
    query,       \* chat: the text in the input
    messages,    \* chat: the conversation
    isLoading,   \* chat: a request is being awaited
    pending,     \* chat: the AI calls that have not settled yet
    asked,       \* chat: number of questions submitted so far
    API_KEY,     \* /api/gemini: the server's key, "" when no variable is set
    req,         \* /api/gemini: the request, its method and body
    hpc,         \* /api/gemini: where the handler is
    primaryModel, \* /api/gemini: the handler's primaryModel
    upstream,    \* /api/gemini: the upstream calls, in order: model and result
    responses,   \* /api/gemini: the responses sent
    filteredOrders, \* App: the rows of the orders table
    clicked,     \* App: the name of the chart segment clicked last
    clicks,      \* App: number of clicks on chart segments so far
    runtimeApiKey,   \* geminiService: the key entered at run time, "" for null
    localStorageKey, \* the item fiq_gemini_api_key of localStorage, "" for none
    buildTimeKey,    \* geminiService: the key of the build, "" for none
    ai,          \* geminiService: the key the client was built with, "" for null
    keyResult,   \* what the latest call of setRuntimeApiKey returned
    keyCalls     \* number of calls of setRuntimeApiKey so far

aggregateVars == <<data, result, prev, calls, pc>>

parseVars == <<dateString, tz, parsed, ppc, genericParse>>

appVars ==
    <<parsing, uploads, lastFile, unmappedData, csvHeaders, originalData,
      isMappingModalOpen, uploadError>>

modalVars == <<mapping, previewData, showPreview, changes>>

chatVars == <<chatComponent, isDataLoaded, query, messages, isLoading, pending, asked>>

\* the state of the data core and of the upload dialogue
earlierVars == <<aggregateVars, parseVars, appVars, modalVars>>

\* the state of the components around them
handlerVars == <<API_KEY, req, hpc, primaryModel, upstream, responses>>

filterVars == <<filteredOrders, clicked, clicks>>

keyVars == <<runtimeApiKey, localStorageKey, buildTimeKey, ai, keyResult, keyCalls>>

laterVars == <<chatVars, handlerVars, filterVars, keyVars>>

notChatVars == <<earlierVars, handlerVars, filterVars, keyVars>>

notHandlerVars == <<earlierVars, chatVars, filterVars, keyVars>>

notFilterVars == <<parseVars, appVars, modalVars, chatVars, handlerVars, keyVars>>

notKeyVars == <<earlierVars, chatVars, handlerVars, filterVars>>

vars == <<earlierVars, laterVars>>

(***************************************************************************)
(* Bounds of the model.                                                    *)
(***************************************************************************)
MaxRows == 3

(***************************************************************************)
(* JavaScript values.                                                      *)
(***************************************************************************)
Abs(n) == IF n < 0 THEN -n ELSE n

Sign(n) == IF n < 0 THEN -1 ELSE IF n > 0 THEN 1 ELSE 0

RECURSIVE Gcd(_, _)
Gcd(a, b) == IF b = 0 THEN a ELSE Gcd(b, a % b)

\* A number value num/den; den = 0 encodes NaN (0/0) and +/-Infinity (+/-1/0).
Num(n, d) == [kind |-> "number", num |-> n, den |-> d, str |-> ""]

Str(s) == [kind |-> "string", num |-> 0, den |-> 1, str |-> s]

Undefined == [kind |-> "undefined", num |-> 0, den |-> 1, str |-> ""]

Rat(n, d) ==
    IF d = 0 THEN Num(Sign(n), 0)
    ELSE LET g == Gcd(Abs(n), Abs(d))
         IN  Num(Sign(d) * (n \div g), Abs(d) \div g)

Whole(n) == Num(n, 1)

NaN == Num(0, 0)

IsNaN(x) == x.kind = "number" /\ x.den = 0 /\ x.num = 0

IsFinite(x) == x.kind = "number" /\ x.den > 0

\* x / y, x * y, x + y of two number values, with IEEE's specials.
JsDiv(x, y) == Rat(x.num * y.den, x.den * y.num)

JsMul(x, y) == Rat(x.num * y.num, x.den * y.den)

JsAdd(x, y) ==
    IF x.den = 0 /\ y.den = 0
    THEN (IF x.num = y.num THEN x ELSE NaN)
    ELSE Rat(x.num * y.den + y.num * x.den, x.den * y.den)

\* x > 0; any comparison with NaN is false.
Gt0(x) == x.num > 0

\* ToBoolean
Truthy(x) ==
    CASE x.kind = "number" -> x.num # 0
      [] x.kind = "string" -> x.str # ""
      [] x.kind = "object" -> TRUE
      [] OTHER -> FALSE

(***************************************************************************)
(* Dates: null, or a Date object holding a time value (minutes since the   *)
(* epoch).  A Date object is always truthy.                                *)
(***************************************************************************)
MinutesPerDay == 1440

NullDate == [null |-> TRUE, time |-> 0]

DateOf(t) == [null |-> FALSE, time |-> t]

\* days since 1970-01-01 of the civil date y-m-d (proleptic Gregorian)
DaysFromCivil(y, m, d) ==
    LET yy  == IF m <= 2 THEN y - 1 ELSE y
        era == yy \div 400
        yoe == yy - era * 400
        mp  == IF m > 2 THEN m - 3 ELSE m + 9
        doy == ((153 * mp + 2) \div 5) + d - 1
        doe == yoe * 365 + (yoe \div 4) - (yoe \div 100) + doy
    IN  era * 146097 + doe - 719468

\* the civil date [y, m, d] of a day number
CivilFromDays(z) ==
    LET zz  == z + 719468
        era == zz \div 146097
        doe == zz - era * 146097
        yoe == (doe - (doe \div 1460) + (doe \div 36524) - (doe \div 146096)) \div 365
        doy == doe - (365 * yoe + (yoe \div 4) - (yoe \div 100))
        mp  == (5 * doy + 2) \div 153
        d   == doy - ((153 * mp + 2) \div 5) + 1
        m   == IF mp < 10 THEN mp + 3 ELSE mp - 9
    IN  [y |-> IF m <= 2 THEN yoe + era * 400 + 1 ELSE yoe + era * 400,
         m |-> m, d |-> d]

\* Date.UTC(year, monthIndex, day): months and days outside their range carry over
DateUTC(year, monthIndex, day) ==
    (DaysFromCivil(year + (monthIndex \div 12), (monthIndex % 12) + 1, 1) + day - 1)
        * MinutesPerDay

(***************************************************************************)
(* Strings, read character by character.                                   *)
(***************************************************************************)
CharAt(s, i) == IF i \in 1..Len(s) THEN SubSeq(s, i, i) ELSE ""

Digits == {"0", "1", "2", "3", "4", "5", "6", "7", "8", "9"}

IsDigit(c) == c \in Digits

DigitVal(c) ==
    CASE c = "0" -> 0 [] c = "1" -> 1 [] c = "2" -> 2 [] c = "3" -> 3
      [] c = "4" -> 4 [] c = "5" -> 5 [] c = "6" -> 6 [] c = "7" -> 7
      [] c = "8" -> 8 [] c = "9" -> 9

\* the first position at or after i that holds no blank
RECURSIVE SkipBlanks(_, _)
SkipBlanks(s, i) ==
    IF i <= Len(s) /\ CharAt(s, i) = " " THEN SkipBlanks(s, i + 1) ELSE i

\* String.prototype.trim() === ''
IsBlank(s) == SkipBlanks(s, 1) > Len(s)

\* how many digits stand at positions i, i+1, ... (at most max of them)
RECURSIVE DigitRun(_, _, _)
DigitRun(s, i, max) ==
    IF max > 0 /\ i <= Len(s) /\ IsDigit(CharAt(s, i))
    THEN 1 + DigitRun(s, i + 1, max - 1)
    ELSE 0

\* the decimal value of the n digits at positions i .. i+n-1
RECURSIVE DigitsValue(_, _, _)
DigitsValue(s, i, n) ==
    IF n = 0 THEN 0
    ELSE 10 * DigitsValue(s, i, n - 1) + DigitVal(CharAt(s, i + n - 1))

\* parseInt(s, 10): blanks, an optional sign, then the longest run of digits
parseInt(s) ==
    LET i    == SkipBlanks(s, 1)
        sgn  == i <= Len(s) /\ CharAt(s, i) \in {"+", "-"}
        neg  == sgn /\ CharAt(s, i) = "-"
        j    == IF sgn THEN i + 1 ELSE i
        n    == DigitRun(s, j, Len(s))
    IN  IF n = 0 THEN NaN
        ELSE Whole(IF neg THEN -DigitsValue(s, j, n) ELSE DigitsValue(s, j, n))

\* handleConfirm: quantity: parseInt(row.quantity, 10) || 0
Quantity(s) == LET v == parseInt(s) IN IF Truthy(v) THEN v.num ELSE 0

(***************************************************************************)
(* new Date(string) and the local-time getters, as the host's engine       *)
(* provides them.  ECMAScript fixes the date-only ISO form (UTC midnight); *)
(* every other form is implementation-defined, so NewDate is the set of    *)
(* the outcomes engines produce.                                           *)
(***************************************************************************)
Invalid == [valid |-> FALSE, time |-> 0]

Valid(t) == [valid |-> TRUE, time |-> t]

IsLeap(y) == (y % 4 = 0 /\ y % 100 # 0) \/ y % 400 = 0

DaysInMonth(y, m) ==
    IF m = 2 THEN (IF IsLeap(y) THEN 29 ELSE 28)
    ELSE IF m \in {4, 6, 9, 11} THEN 30 ELSE 31

\* YYYY-MM-DD
IsIsoDate(s) ==
    /\ Len(s) = 10
    /\ DigitRun(s, 1, 4) = 4 /\ CharAt(s, 5) = "-"
    /\ DigitRun(s, 6, 2) = 2 /\ CharAt(s, 8) = "-"
    /\ DigitRun(s, 9, 2) = 2

NoMatch == [ok |-> FALSE, g1 |-> 0, g2 |-> 0, g3 |-> 0, sep |-> "", end |-> 0]

\* (\d{a})[/-](\d{b})[/-](\d{4}) at position p, for given lengths a and b
MatchWith(s, p, a, b) ==
    IF /\ DigitRun(s, p, a) = a
       /\ CharAt(s, p + a) \in {"/", "-"}
       /\ DigitRun(s, p + a + 1, b) = b
       /\ CharAt(s, p + a + 1 + b) \in {"/", "-"}
       /\ DigitRun(s, p + a + b + 2, 4) = 4
    THEN [ok |-> TRUE, g1 |-> DigitsValue(s, p, a), g2 |-> DigitsValue(s, p + a + 1, b),
          g3 |-> DigitsValue(s, p + a + b + 2, 4),
          sep |-> CharAt(s, p + a) \o CharAt(s, p + a + 1 + b), end |-> p + a + b + 6]
    ELSE NoMatch

\* the pattern at position p: each \d{1,2} is greedy, backtracking to one digit
MatchAt(s, p) ==
    IF MatchWith(s, p, 2, 2).ok THEN MatchWith(s, p, 2, 2)
    ELSE IF MatchWith(s, p, 2, 1).ok THEN MatchWith(s, p, 2, 1)
    ELSE IF MatchWith(s, p, 1, 2).ok THEN MatchWith(s, p, 1, 2)
    ELSE MatchWith(s, p, 1, 1)

\* dateString.match(/(\d{1,2})[/-](\d{1,2})[/-](\d{4})/): the leftmost match
RECURSIVE MatchFrom(_, _)
MatchFrom(s, p) ==
    IF p > Len(s) THEN NoMatch
    ELSE IF MatchAt(s, p).ok THEN MatchAt(s, p)
    ELSE MatchFrom(s, p + 1)

\* midnight of y-m-d in the host's local time
LocalMidnight(y, m, d, offset) == DateUTC(y, m - 1, d) - offset

NewDate(s, offset) ==
    IF IsIsoDate(s)
    THEN LET y == DigitsValue(s, 1, 4)
             m == DigitsValue(s, 6, 2)
             d == DigitsValue(s, 9, 2)
         IN  IF m \notin 1..12 \/ d \notin 1..31 THEN {Invalid}
             ELSE IF d <= DaysInMonth(y, m) THEN {Valid(DateUTC(y, m - 1, d))}
             ELSE {Invalid, Valid(DateUTC(y, m - 1, d))}
    ELSE LET mt == MatchAt(s, 1)
         IN  IF ~mt.ok \/ mt.end # Len(s) + 1 THEN {Invalid}
             ELSE IF mt.g1 \notin 1..12 \/ mt.g2 \notin 1..31 THEN {Invalid}
             ELSE IF mt.sep = "//" /\ mt.g2 <= DaysInMonth(mt.g3, mt.g1)
                  THEN {Valid(LocalMidnight(mt.g3, mt.g1, mt.g2, offset))}
                  ELSE {Invalid, Valid(LocalMidnight(mt.g3, mt.g1, mt.g2, offset))}

\* getFullYear(), getMonth(), getDate(): the civil date in local time
LocalCivil(t, offset) == CivilFromDays((t + offset) \div MinutesPerDay)

\* toISOString().split('T')[0]
Pad2(n) == IF n < 10 THEN "0" \o ToString(n) ELSE ToString(n)

Pad4(n) ==
    IF n < 10 THEN "000" \o ToString(n)
    ELSE IF n < 100 THEN "00" \o ToString(n)
    ELSE IF n < 1000 THEN "0" \o ToString(n) ELSE ToString(n)

IsoDay(t) ==
    LET c == CivilFromDays(t \div MinutesPerDay)
    IN  Pad4(c.y) \o "-" \o Pad2(c.m) \o "-" \o Pad2(c.d)

(***************************************************************************)
(* parseDate                                                               *)
(***************************************************************************)
Null == [kind |-> "null", num |-> 0, den |-> 1, str |-> ""]

\* a variant that takes every value for a string
IsString_Always(v) == TRUE

\* typeof dateString === 'string'
IsString(v) == v.kind = "string"

\* the first statement's guard: the argument is no usable string
Unparseable(v) == ~Truthy(v) \/ ~IsString(v) \/ IsBlank(v.str)

\* dateString.trim() is evaluated, on a value that has no trim method: a TypeError
TrimThrows(v) == Truthy(v) /\ IsString(v) /\ v.kind # "string"

\* the first attempt, given what new Date(dateString) produced
IsoAttempt(isoAttempt, offset) ==
    IF isoAttempt.valid
    THEN LET c == LocalCivil(isoAttempt.time, offset)
         IN  DateOf(DateUTC(c.y, c.m - 1, c.d))
    ELSE NullDate

\* the fallback for M/D/YYYY
Fallback(s) ==
    LET parts == MatchFrom(s, 1)
    IN  IF parts.ok THEN DateOf(DateUTC(parts.g3, parts.g1 - 1, parts.g2))
        ELSE NullDate

parseDate(v, isoAttempt, offset) ==
    IF Unparseable(v) THEN NullDate
    ELSE IF ~IsoAttempt(isoAttempt, offset).null THEN IsoAttempt(isoAttempt, offset)
    ELSE Fallback(v.str)

(***************************************************************************)
(* Rows (DataRow).  The dates of a row are what parseDate returned at      *)
(* ingestion: null or a UTC midnight.                                      *)
(***************************************************************************)
Day(y, m, d) == DateOf(DateUTC(y, m - 1, d))

Row(type, id, product, qty, status, od, sd, dd, rd, loc) ==
    [type |-> type, id |-> id, product_name |-> product, quantity |-> Quantity(qty),
     status |-> status, order_date |-> od, ship_date |-> sd, delivery_date |-> dd,
     required_shipping_date |-> rd, location |-> loc]

Order(id, status, qty, od, dd) ==
    Row("order", id, "Widget", qty, status, od, NullDate, dd, NullDate, "W1")

Shipment(id, sd, rd) ==
    Row("shipment", id, "Widget", "1", "In Transit", NullDate, sd, NullDate, rd, "W1")

Inventory(id, product, qty, loc) ==
    Row("inventory", id, product, qty, "In Stock", NullDate, NullDate, NullDate, NullDate, loc)

OrderRows ==
    { Order("O1", "Shipped",    "5 pcs", Day(2024, 3, 10), NullDate),
      Order("O2", "Delivered",  "3",     Day(2024, 3, 10), Day(2024, 3, 12)),
      Order("O3", "Delivered",  "-2",    Day(2024, 3, 11), Day(2024, 3, 11)),
      Order("O4", "Delivered",  "4",     NullDate,         Day(2024, 3, 12)),
      Order("O5", "Delivered",  " 6",    Day(2024, 2, 29), NullDate),
      Order("O6", "Processing", "7",     Day(2024, 3, 12), NullDate),
      Order("O7", "delivered",  "n/a",   Day(2024, 3, 10), Day(2024, 3, 13)),
      Order("O8", "20",         "1",     Day(2024, 3, 9),  NullDate) }

ShipmentRows ==
    { Shipment("S1", NullDate,         NullDate),
      Shipment("S2", Day(2024, 3, 10), NullDate),
      Shipment("S3", Day(2024, 3, 12), Day(2024, 3, 11)),
      Shipment("S4", NullDate,         Day(2024, 3, 11)),
      Shipment("S5", Day(2024, 3, 11), Day(2024, 3, 11)) }

InventoryRows ==
    { Inventory("I1", "Widget", "10", "W1"),
      Inventory("I2", "Gadget", "-4", ""),
      Inventory("I3", "Widget", "4",  "Unknown") }

OtherRows ==
    { Row("Order", "X1", "Widget", "9", "Delivered", Day(2024, 3, 10), Day(2024, 3, 10),
          Day(2024, 3, 14), Day(2024, 3, 11), "W2") }

Rows == OrderRows \cup ShipmentRows \cup InventoryRows \cup OtherRows

(***************************************************************************)
(* Plain objects used as dictionaries (Record<string, number>): the own    *)
(* properties in insertion order, over what Object.prototype provides.     *)
(***************************************************************************)
ProtoKeys ==
    {"constructor", "toString", "toLocaleString", "valueOf", "hasOwnProperty",
     "isPrototypeOf", "propertyIsEnumerable", "__proto__"}

\* the inherited value of a key of ProtoKeys: a truthy object, with its String() form
Inherited(k) ==
    [kind |-> "object", num |-> 0, den |-> 1,
     str |-> IF k = "__proto__" THEN "[object Object]"
             ELSE "function " \o (IF k = "constructor" THEN "Object" ELSE k)
                      \o "() { [native code] }"]

OwnIndex(acc, k) ==
    IF \E i \in 1..Len(acc) : acc[i].key = k
    THEN CHOOSE i \in 1..Len(acc) : acc[i].key = k
    ELSE 0

\* acc[k]
ObjGet(acc, k) ==
    IF OwnIndex(acc, k) # 0 THEN acc[OwnIndex(acc, k)].value
    ELSE IF k \in ProtoKeys THEN Inherited(k)
    ELSE Undefined

\* acc[k] = v; assigning a primitive to __proto__ changes nothing
ObjSet(acc, k, v) ==
    IF k = "__proto__" THEN acc
    ELSE IF OwnIndex(acc, k) # 0 THEN [acc EXCEPT ![OwnIndex(acc, k)].value = v]
    ELSE Append(acc, [key |-> k, value |-> v])

\* ToString of a value, as the + operator applies it
JsToString(x) ==
    CASE x.kind = "string" -> x.str
      [] x.kind = "number" /\ x.den = 1 -> ToString(x.num)
      [] x.kind = "number" /\ x.den = 0 /\ x.num = 0 -> "NaN"
      [] x.kind = "number" /\ x.den = 0 /\ x.num > 0 -> "Infinity"
      [] x.kind = "number" /\ x.den = 0 /\ x.num < 0 -> "-Infinity"
      [] x.kind = "number" -> ToString(x.num) \o "/" \o ToString(x.den)
      [] OTHER -> x.str

\* x + y: numeric addition of two numbers, else string concatenation
JsPlus(x, y) ==
    IF x.kind = "number" /\ y.kind = "number" THEN JsAdd(x, y)
    ELSE Str(JsToString(x) \o JsToString(y))

\* x || 0
OrZero(x) == IF Truthy(x) THEN x ELSE Whole(0)

\* an integer index: a canonical decimal numeral (below 2^32 - 1)
IsArrayIndex(k) ==
    /\ Len(k) \in 1..9
    /\ DigitRun(k, 1, Len(k)) = Len(k)
    /\ (Len(k) = 1 \/ CharAt(k, 1) # "0")

\* a sequence of [rank, item] sorted by ascending rank, equal ranks keeping
\* their order (Array.prototype.sort is stable)
RECURSIVE InsertSorted(_, _)
InsertSorted(seq, x) ==
    IF seq = <<>> THEN <<x>>
    ELSE IF seq[Len(seq)].rank <= x.rank THEN Append(seq, x)
    ELSE Append(InsertSorted(SubSeq(seq, 1, Len(seq) - 1), x), seq[Len(seq)])

RECURSIVE SortByRank(_)
SortByRank(seq) ==
    IF seq = <<>> THEN <<>>
    ELSE InsertSorted(SortByRank(SubSeq(seq, 1, Len(seq) - 1)), seq[Len(seq)])

Items(seq) == [i \in 1..Len(seq) |-> seq[i].item]

IndexOfKey(e) == DigitsValue(e.key, 1, Len(e.key))

\* Object.entries(acc): integer indices ascending, then the other keys as inserted
ObjectEntries(acc) ==
    LET indices == SelectSeq(acc, LAMBDA e : IsArrayIndex(e.key))
    IN  Items(SortByRank([i \in 1..Len(indices) |->
                             [rank |-> IndexOfKey(indices[i]), item |-> indices[i]]]))
            \o SelectSeq(acc, LAMBDA e : ~IsArrayIndex(e.key))

(***************************************************************************)
(* processDataForDashboard                                                 *)
(***************************************************************************)
\* a variant that matches the type in any capitalisation
orders_AnyCase(d) == SelectSeq(d, LAMBDA row : row.type \in {"order", "Order", "ORDER"})

\* a variant that keeps only the orders that have an order date
orders_WithOrderDate(d) ==
    SelectSeq(d, LAMBDA row : row.type = "order" /\ ~row.order_date.null)

orders(d) == SelectSeq(d, LAMBDA row : row.type = "order")

shipments(d) == SelectSeq(d, LAMBDA row : row.type = "shipment")

inventory(d) == SelectSeq(d, LAMBDA row : row.type = "inventory")

\* a variant that forgets the Delivered orders
IsShipped_ShippedOnly(o) == o.status = "Shipped"

IsShipped(o) == o.status = "Shipped" \/ o.status = "Delivered"

shippedOrdersCount(d) == Len(SelectSeq(orders(d), IsShipped))

\* a variant without the guard against an empty order list
fillRate_Unguarded(d) ==
    JsMul(JsDiv(Whole(shippedOrdersCount(d)), Whole(Len(orders(d)))), Whole(100))

fillRate(d) ==
    IF Len(orders(d)) > 0
    THEN JsMul(JsDiv(Whole(shippedOrdersCount(d)), Whole(Len(orders(d)))), Whole(100))
    ELSE Whole(0)

\* a variant that takes every order with both dates, whatever its status
deliveredOrders_AnyStatus(d) ==
    SelectSeq(orders(d), LAMBDA o : ~o.delivery_date.null /\ ~o.order_date.null)

\* a variant that takes every Delivered order, with or without its dates
deliveredOrders_NoDateCheck(d) == SelectSeq(orders(d), LAMBDA o : o.status = "Delivered")

deliveredOrders(d) ==
    SelectSeq(orders(d), LAMBDA o :
        o.status = "Delivered" /\ ~o.delivery_date.null /\ ~o.order_date.null)

\* reading getTime() of null raises a TypeError
GetTimeThrows(os) == \E i \in 1..Len(os) : os[i].delivery_date.null \/ os[i].order_date.null

\* the reduce over deliveredOrders: the sum of the cycle times, in days
RECURSIVE totalCycleTime(_)
totalCycleTime(os) ==
    IF os = <<>> THEN Whole(0)
    ELSE LET o == os[Len(os)]
             cycleTime == JsDiv(Whole(o.delivery_date.time - o.order_date.time),
                                Whole(MinutesPerDay))
         IN  JsAdd(totalCycleTime(SubSeq(os, 1, Len(os) - 1)), cycleTime)

NotApplicable == Str("N/A")

\* a variant that averages over all orders instead of the delivered ones
avgCycleTime_OverAllOrders(d) ==
    IF Len(deliveredOrders(d)) > 0
    THEN JsDiv(totalCycleTime(deliveredOrders(d)), Whole(Len(orders(d))))
    ELSE NotApplicable

avgCycleTime(d) ==
    IF Len(deliveredOrders(d)) > 0
    THEN JsDiv(totalCycleTime(deliveredOrders(d)), Whole(Len(deliveredOrders(d))))
    ELSE NotApplicable

\* parseFloat(x.toFixed(1)): the nearest multiple of 0.1, a tie going away from zero
\* (a mean of fewer than 20 whole days is a tie only at .25 and .75, which a double
\* holds exactly)
ToFixed1(x) ==
    IF ~IsFinite(x) THEN x
    ELSE LET n == Abs(x.num) * 10
             q == n \div x.den
             r == n % x.den
             t == IF 2 * r >= x.den THEN q + 1 ELSE q
         IN  Rat(Sign(x.num) * t, 10)

cycleTime(d) ==
    IF avgCycleTime(d).kind = "number" THEN ToFixed1(avgCycleTime(d)) ELSE NotApplicable

\* a variant that counts a shipment on its required day as late
IsOnTime_Strict(s) ==
    /\ ~s.ship_date.null
    /\ ~s.required_shipping_date.null
    /\ s.ship_date.time < s.required_shipping_date.time

IsOnTime(s) ==
    /\ ~s.ship_date.null
    /\ ~s.required_shipping_date.null
    /\ s.ship_date.time <= s.required_shipping_date.time

onTimeShipments(d) == Len(SelectSeq(shipments(d), IsOnTime))

\* a variant that keeps the shipments without a required date
relevantShipments_All(d) == shipments(d)

relevantShipments(d) == SelectSeq(shipments(d), LAMBDA s : ~s.required_shipping_date.null)

onTimeRate(d) ==
    IF Len(relevantShipments(d)) > 0
    THEN JsMul(JsDiv(Whole(onTimeShipments(d)), Whole(Len(relevantShipments(d)))), Whole(100))
    ELSE Whole(0)

\* reduce((sum, r) => sum + r.quantity, 0)
RECURSIVE SumQuantity(_)
SumQuantity(rows) ==
    IF rows = <<>> THEN 0
    ELSE SumQuantity(SubSeq(rows, 1, Len(rows) - 1)) + rows[Len(rows)].quantity

totalShippedQty(d) == SumQuantity(SelectSeq(orders(d), IsShipped))

totalInventory(d) == SumQuantity(inventory(d))

\* new Set(inventory.map(i => i.product_name)).size
distinctProducts(d) == Cardinality({inventory(d)[i].product_name : i \in 1..Len(inventory(d))})

\* x || 1
OrOne(x) == IF Truthy(x) THEN x ELSE Whole(1)

\* a variant with the conventional average, total over row count
avgInventory_PerRow(d) ==
    IF totalInventory(d) > 0
    THEN JsDiv(Whole(totalInventory(d)), Whole(Len(inventory(d))))
    ELSE Whole(0)

avgInventory(d) ==
    IF totalInventory(d) > 0
    THEN JsDiv(Whole(totalInventory(d)),
               OrOne(JsDiv(Whole(Len(inventory(d))), Whole(distinctProducts(d)))))
    ELSE Whole(0)

inventoryTurnover(d) ==
    IF Gt0(avgInventory(d))
    THEN JsDiv(Whole(totalShippedQty(d)), avgInventory(d))
    ELSE Whole(0)

\* orders.reduce: acc[order.status] = (acc[order.status] || 0) + 1
RECURSIVE CountByStatus(_)
CountByStatus(os) ==
    IF os = <<>> THEN <<>>
    ELSE LET acc == CountByStatus(SubSeq(os, 1, Len(os) - 1))
             k   == os[Len(os)].status
         IN  ObjSet(acc, k, JsPlus(OrZero(ObjGet(acc, k)), Whole(1)))

orderStatusCounts(d) == CountByStatus(orders(d))

ordersChartData(d) ==
    LET es == ObjectEntries(orderStatusCounts(d))
    IN  [i \in 1..Len(es) |-> [name |-> es[i].key, value |-> es[i].value]]

\* inventory.reduce: location = item.location || 'Unknown'
RECURSIVE SumByLocation(_)
SumByLocation(is) ==
    IF is = <<>> THEN <<>>
    ELSE LET acc  == SumByLocation(SubSeq(is, 1, Len(is) - 1))
             item == is[Len(is)]
             location == IF item.location # "" THEN item.location ELSE "Unknown"
         IN  ObjSet(acc, location,
                    JsPlus(OrZero(ObjGet(acc, location)), Whole(item.quantity)))

inventoryByWarehouse(d) == SumByLocation(inventory(d))

inventoryChartData(d) ==
    LET es == ObjectEntries(inventoryByWarehouse(d))
    IN  [i \in 1..Len(es) |-> [name |-> es[i].key, quantity |-> es[i].value]]

\* orders.reduce: orders with an order_date, counted by their UTC day
RECURSIVE CountByDay(_)
CountByDay(os) ==
    IF os = <<>> THEN <<>>
    ELSE LET acc   == CountByDay(SubSeq(os, 1, Len(os) - 1))
             order == os[Len(os)]
             day   == IsoDay(order.order_date.time)
         IN  IF ~order.order_date.null
             THEN ObjSet(acc, day, JsPlus(OrZero(ObjGet(acc, day)), Whole(1)))
             ELSE acc

ordersByDay(d) == CountByDay(orders(d))

\* new Date(a).getTime() of a key of ordersByDay (a date-only ISO string)
TimeOfKey(e) == (CHOOSE x \in NewDate(e.key, 0) : TRUE).time

\* a variant that leaves the keys in the order Object.keys gives them
sortedDates_Unsorted(d) ==
    LET keys == ObjectEntries(ordersByDay(d))
    IN  [i \in 1..Len(keys) |-> keys[i].key]

\* Object.keys(ordersByDay).sort((a, b) => new Date(a).getTime() - new Date(b).getTime())
sortedDates(d) ==
    LET keys == ObjectEntries(ordersByDay(d))
        es   == Items(SortByRank([i \in 1..Len(keys) |->
                                     [rank |-> TimeOfKey(keys[i]), item |-> keys[i]]]))
    IN  [i \in 1..Len(es) |-> es[i].key]

volumeChartData(d) ==
    [i \in 1..Len(sortedDates(d)) |->
        [name |-> sortedDates(d)[i], orders |-> ObjGet(ordersByDay(d), sortedDates(d)[i])]]

\* the call raises an exception instead of returning
Throws(d) == GetTimeThrows(deliveredOrders(d))

processDataForDashboard(d) ==
    [kpis |-> [fillRate |-> fillRate(d), cycleTime |-> cycleTime(d),
               onTimeRate |-> onTimeRate(d), inventoryTurnover |-> inventoryTurnover(d)],
     ordersChartData |-> ordersChartData(d),
     inventoryChartData |-> inventoryChartData(d),
     volumeChartData |-> volumeChartData(d),
     orders |-> orders(d)]

(***************************************************************************)
(* The scenarios of the specification, as inputs.                          *)
(***************************************************************************)
\* n copies of a row
Copies(n, row) == [i \in 1..n |-> row]

\* 10 orders: 6 Shipped, 2 Delivered, 2 Processing
FillScenario ==
    Copies(6, Order("A", "Shipped", "1", NullDate, NullDate))
        \o Copies(2, Order("B", "Delivered", "1", NullDate, NullDate))
        \o Copies(2, Order("C", "Processing", "1", NullDate, NullDate))

\* 3 delivered orders with cycle times of 2, 4 and 6 days
CycleScenario ==
    << Order("A", "Delivered", "1", Day(2024, 3, 1), Day(2024, 3, 3)),
       Order("B", "Delivered", "1", Day(2024, 3, 1), Day(2024, 3, 5)),
       Order("C", "Delivered", "1", Day(2024, 2, 27), Day(2024, 3, 4)) >>

\* 4 delivered orders with cycle times of 1, 0, 0 and 0 days: a mean of 0.25
TieScenario ==
    << Order("A", "Delivered", "1", Day(2024, 3, 1), Day(2024, 3, 2)) >>
        \o Copies(3, Order("B", "Delivered", "1", Day(2024, 3, 1), Day(2024, 3, 1)))

\* 5 shipments, 3 with a required date, 2 of them shipped on or before it
OnTimeScenario ==
    << Shipment("A", Day(2024, 3, 1), Day(2024, 3, 2)),
       Shipment("B", Day(2024, 3, 2), Day(2024, 3, 2)),
       Shipment("C", Day(2024, 3, 3), Day(2024, 3, 2)),
       Shipment("D", Day(2024, 3, 1), NullDate),
       Shipment("E", NullDate, NullDate) >>

\* statuses and locations that are empty or name a property of Object.prototype
OddStringsScenario ==
    << Order("A", "constructor", "1", Day(2024, 3, 1), NullDate),
       Order("B", "", "1", NullDate, NullDate),
       Order("C", "constructor", "1", Day(2024, 3, 1), NullDate),
       Order("D", "__proto__", "1", NullDate, NullDate),
       Inventory("E", "Widget", "2", "valueOf"),
       Inventory("F", "Widget", "3", "valueOf") >>

\* rows of the three types among rows whose type is spelled otherwise or is empty
OtherTypesScenario ==
    << Row("", "A", "Widget", "8", "Delivered", Day(2024, 3, 1), Day(2024, 3, 2),
           Day(2024, 3, 3), Day(2024, 3, 1), "W3"),
       Order("B", "Delivered", "2", Day(2024, 3, 1), Day(2024, 3, 4)),
       Row("INVENTORY", "C", "Gadget", "50", "In Stock", NullDate, NullDate,
           NullDate, NullDate, "W4"),
       Inventory("D", "Widget", "5", "W1"),
       Row("shipments", "E", "Widget", "1", "In Transit", NullDate, Day(2024, 3, 5),
           NullDate, Day(2024, 3, 2), "W1"),
       Shipment("F", Day(2024, 3, 2), Day(2024, 3, 2)),
       Row("ORDER", "G", "Widget", "3", "Shipped", Day(2024, 3, 7), NullDate,
           NullDate, NullDate, "W1") >>

Scenarios ==
    {FillScenario, CycleScenario, TieScenario, OnTimeScenario, OddStringsScenario,
     OtherTypesScenario}

(***************************************************************************)
(* The arguments of parseDate and the hosts' time zones.                   *)
(***************************************************************************)
PlainObject == [kind |-> "object", num |-> 0, den |-> 1, str |-> "[object Object]"]

DateInputs ==
    { Str("2024-03-15"), Str("3/15/2024"), Str("03/15/2024"), Str("2024-01-01"),
      Str("12/31/2023"), Str("3-15-2024"), Str("2024-02-30"), Str("2/30/2024"),
      Str("13/45/2024"), Str("15-03-2024"), Str("not-a-date"), Str(""), Str("   "),
      Null, Undefined, Whole(20240315), Whole(0), PlainObject }

\* minutes east of UTC: Baker Island, New York, UTC, Kolkata, Kiritimati
Offsets == {-720, -300, 0, 330, 840}

(***************************************************************************)
(* The state machines.                                                     *)
(***************************************************************************)
(* The upload and the column mapping (App, DataMappingModal).  A parsed    *)
(* CSV row, a mapping and an imported row are plain objects.               *)
(***************************************************************************)
MaxUploads == 2

MaxChanges == 1

REQUIRED_FIELDS ==
    << [key |-> "type",          value |-> "Record Type (e.g., order, shipment)"],
       [key |-> "id",            value |-> "Order/Shipment ID"],
       [key |-> "product_name",  value |-> "Product Name"],
       [key |-> "quantity",      value |-> "Quantity"],
       [key |-> "status",        value |-> "Status (e.g., Shipped, Processing)"],
       [key |-> "order_date",    value |-> "Order Date"],
       [key |-> "ship_date",     value |-> "Ship Date (Optional)"],
       [key |-> "delivery_date", value |-> "Delivery Date (Optional)"],
       [key |-> "required_shipping_date", value |-> "Required Ship Date (Optional)"],
       [key |-> "location",      value |-> "Warehouse/Location"] >>

\* s.includes(part)
Includes(s, part) ==
    \E i \in 1..Len(s) : i + Len(part) - 1 <= Len(s) /\ SubSeq(s, i, i + Len(part) - 1) = part

FieldKeys == [i \in 1..Len(REQUIRED_FIELDS) |-> REQUIRED_FIELDS[i].key]

isOptional(key) ==
    \E i \in 1..Len(REQUIRED_FIELDS) :
        REQUIRED_FIELDS[i].key = key /\ Includes(REQUIRED_FIELDS[i].value, "(Optional)")

requiredKeys == SelectSeq(FieldKeys, LAMBDA key : ~isOptional(key))

UpperCase == "ABCDEFGHIJKLMNOPQRSTUVWXYZ"

LowerCase == "abcdefghijklmnopqrstuvwxyz"

ToLowerChar(c) ==
    IF \E i \in 1..Len(UpperCase) : CharAt(UpperCase, i) = c
    THEN CharAt(LowerCase, CHOOSE i \in 1..Len(UpperCase) : CharAt(UpperCase, i) = c)
    ELSE c

\* s.toLowerCase().replace(/[\s_]/g, '')
RECURSIVE Normalized(_)
Normalized(s) ==
    IF s = "" THEN ""
    ELSE LET c == CharAt(s, 1)
         IN  (IF c \in {" ", "_"} THEN "" ELSE ToLowerChar(c))
                 \o Normalized(SubSeq(s, 2, Len(s)))

\* headers.find(h => normalized h === normalized fieldKey), "" for undefined
likelyMatch(headers, fieldKey) ==
    LET found == SelectSeq(headers, LAMBDA h : Normalized(h) = Normalized(fieldKey))
    IN  IF found = <<>> THEN "" ELSE found[1]

\* the mapping effect's loop over the first n keys of REQUIRED_FIELDS
RECURSIVE MatchedUpTo(_, _)
MatchedUpTo(headers, n) ==
    IF n = 0 THEN <<>>
    ELSE LET acc == MatchedUpTo(headers, n - 1)
             fieldKey == FieldKeys[n]
         IN  IF likelyMatch(headers, fieldKey) # ""
             THEN ObjSet(acc, fieldKey, Str(likelyMatch(headers, fieldKey)))
             ELSE acc

initialMapping(headers) == MatchedUpTo(headers, Len(FieldKeys))

\* the loop "for (const key in mapping)" over the first n keys of the mapping
RECURSIVE MappedUpTo(_, _, _)
MappedUpTo(row, m, n) ==
    IF n = 0 THEN <<>>
    ELSE LET newRow == MappedUpTo(row, m, n - 1)
             dataKey == ObjectEntries(m)[n].key
         IN  IF Truthy(ObjGet(m, dataKey))
             THEN ObjSet(newRow, dataKey, ObjGet(row, ObjGet(m, dataKey).str))
             ELSE newRow

newRow(row, m) == MappedUpTo(row, m, Len(ObjectEntries(m)))

\* parseInt(row.quantity, 10) || 0
QuantityOf(v) ==
    Whole(Quantity(IF v.kind = "undefined" THEN "undefined" ELSE JsToString(v)))

\* the dates parseDate may return for a cell on this host
ParsedDates(v) ==
    {parseDate(v, isoAttempt, tz) :
        isoAttempt \in (IF Unparseable(v) THEN {Invalid} ELSE NewDate(v.str, tz))}

\* { ...row, quantity: ..., order_date: ..., ... } of the mapped row
ImportedRows(row, m) ==
    {ObjSet(ObjSet(ObjSet(ObjSet(ObjSet(newRow(row, m),
        "quantity", QuantityOf(ObjGet(newRow(row, m), "quantity"))),
        "order_date", od), "ship_date", sd), "delivery_date", dd),
        "required_shipping_date", rd) :
        od \in ParsedDates(ObjGet(newRow(row, m), "order_date")),
        sd \in ParsedDates(ObjGet(newRow(row, m), "ship_date")),
        dd \in ParsedDates(ObjGet(newRow(row, m), "delivery_date")),
        rd \in ParsedDates(ObjGet(newRow(row, m), "required_shipping_date"))}

\* the collections data.map(...).map(...) may produce
RECURSIVE MappedData(_, _)
MappedData(rows, m) ==
    IF rows = <<>> THEN {<<>>}
    ELSE {Append(front, last) :
              front \in MappedData(SubSeq(rows, 1, Len(rows) - 1), m),
              last \in ImportedRows(rows[Len(rows)], m)}

\* a row as Papa.parse delivers it with header: true
CsvRow(headers, cells) ==
    [i \in 1..Len(headers) |-> [key |-> headers[i], value |-> Str(cells[i])]]

\* every canonical field has a column of a matching name; one more column
NotesHeaders ==
    <<"Type", "ID", "Product Name", "Quantity", "Status", "Order Date", "Location", "Notes">>

NotesFile ==
    << CsvRow(NotesHeaders,
              <<"order", "O1", "Widget", "5 pcs", "Shipped", "2024-03-10", "W1", "fragile">>),
       CsvRow(NotesHeaders,
              <<"inventory", "I1", "Widget", "10", "In Stock", "", "W1", "">>) >>

\* the quantity column has a name the effect does not match
QtyHeaders == <<"type", "id", "product_name", "qty", "status", "order_date", "location">>

QtyFile ==
    << CsvRow(QtyHeaders, <<"order", "O2", "Gadget", "3", "Delivered", "2024-03-11", "W2">>) >>

EmptyFile == <<>>

Files == {NotesFile, QtyFile, EmptyFile}

\* Object.keys(row)
ObjectKeys(row) == [i \in 1..Len(ObjectEntries(row)) |-> ObjectEntries(row)[i].key]

(***************************************************************************)
(* The chat components (FloatingAiChat, AiAnalyst).                        *)
(***************************************************************************)
MaxQuestions == 2

\* s.trim()
RECURSIVE Trim(_)
Trim(s) ==
    IF s = "" THEN ""
    ELSE IF CharAt(s, 1) = " " THEN Trim(SubSeq(s, 2, Len(s)))
    ELSE IF CharAt(s, Len(s)) = " " THEN Trim(SubSeq(s, 1, Len(s) - 1))
    ELSE s

\* what the user may type
Queries == {"", "  ", " Summarize risks"}

\* how an AI call settles: with the model's text, with one of the service's
\* error messages, or by rejecting
Outcomes == {"answer", "error message", "thrown"}

ChatIdle ==
    /\ chatComponent = "none"
    /\ isDataLoaded = FALSE
    /\ query = ""
    /\ messages = <<>>
    /\ isLoading = FALSE
    /\ pending = <<>>
    /\ asked = 0

(***************************************************************************)
(* The serverless function /api/gemini.                                    *)
(***************************************************************************)
NoRequest == [method |-> "", userContent |-> Undefined, model |-> Undefined]

Methods == {"POST", "GET", "OPTIONS"}

\* req.body's userContent: absent, empty, a question, no string
UserContents == {Undefined, Str(""), Str("Summarize risks"), Whole(7)}

\* req.body's model: absent, empty, the fallback model, another model
RequestedModels == {Undefined, Str(""), Str("gemini-1.5-pro"), Str("gemini-2.0-flash")}

\* process.env.GEMINI_API_KEY || ...: none set, or a key
ApiKeys == {"", "server-key"}

\* how fetch and the reading of its body end: a status with the text of the
\* candidates, or an exception
UpstreamResults ==
    {[threw |-> FALSE, status |-> 200, text |-> "insights"],
     [threw |-> FALSE, status |-> 200, text |-> ""],
     [threw |-> FALSE, status |-> 404, text |-> ""],
     [threw |-> FALSE, status |-> 429, text |-> ""],
     [threw |-> FALSE, status |-> 503, text |-> ""],
     [threw |-> TRUE,  status |-> 0,   text |-> ""]}

\* the result of a call that has not settled
Unsettled == [threw |-> FALSE, status |-> 0, text |-> ""]

HandlerIdle ==
    /\ API_KEY = ""
    /\ req = NoRequest
    /\ hpc = "idle"
    /\ primaryModel = ""
    /\ upstream = <<>>
    /\ responses = <<>>

(***************************************************************************)
(* The orders table of App and its filter by chart segment.                *)
(***************************************************************************)
MaxClicks == 3

FilterIdle ==
    /\ filteredOrders = <<>>
    /\ clicked = ""
    /\ clicks = 0

(***************************************************************************)
(* The API key of the AI service.                                          *)
(***************************************************************************)
MaxKeyCalls == 2

\* no call of setRuntimeApiKey has returned yet
NoResult == [success |-> FALSE, message |-> ""]

KeyIdle ==
    /\ runtimeApiKey = ""
    /\ localStorageKey = ""
    /\ buildTimeKey = ""
    /\ ai = ""
    /\ keyResult = NoResult
    /\ keyCalls = 0

MappingIdle ==
    /\ parsing = <<>>
    /\ uploads = 0
    /\ lastFile = <<>>
    /\ unmappedData = <<>>
    /\ csvHeaders = <<>>
    /\ originalData = <<>>
    /\ isMappingModalOpen = FALSE
    /\ uploadError = ""
    /\ mapping = <<>>
    /\ previewData = <<>>
    /\ showPreview = FALSE
    /\ changes = 0

(***************************************************************************)
\* App's state before any data is loaded
InitialResult ==
    [kpis |-> [fillRate |-> Whole(0), cycleTime |-> NotApplicable,
               onTimeRate |-> Whole(0), inventoryTurnover |-> Whole(0)],
     ordersChartData |-> <<>>, inventoryChartData |-> <<>>, volumeChartData |-> <<>>,
     orders |-> <<>>]

ParseIdle ==
    /\ dateString = Str("")
    /\ tz = 0
    /\ parsed = NullDate
    /\ ppc = "idle"
    /\ genericParse = Invalid

AggregateIdle ==
    /\ data = <<>>
    /\ result = InitialResult
    /\ prev = InitialResult
    /\ calls = 0
    /\ pc = "idle"

Init ==
    /\ data \in {<<>>} \cup Scenarios
    /\ result = InitialResult
    /\ prev = InitialResult
    /\ calls = 0
    /\ pc = "ready"
    /\ ParseIdle
    /\ MappingIdle
    /\ ChatIdle
    /\ HandlerIdle
    /\ FilterIdle
    /\ KeyIdle

\* a variant of the call that reverses the collection it was given in place
Process_ReversesInput ==
    /\ pc = "ready"
    /\ ~Throws(data)
    /\ result' = processDataForDashboard(data)
    /\ prev' = result
    /\ calls' = calls + 1
    /\ pc' = "returned"
    /\ data' = [i \in 1..Len(data) |-> data[Len(data) + 1 - i]]
    /\ UNCHANGED <<parseVars, appVars, modalVars, laterVars>>

\* a call of processDataForDashboard on the current collection
Process ==
    /\ pc = "ready"
    /\ IF Throws(data)
       THEN pc' = "threw" /\ UNCHANGED <<result, prev, calls>>
       ELSE /\ result' = processDataForDashboard(data)
            /\ prev' = result
            /\ calls' = calls + 1
            /\ pc' = "returned"
    /\ UNCHANGED <<data, parseVars, appVars, modalVars, laterVars>>

\* the next collection: the last one and one more ingested row
IngestRow ==
    /\ pc = "returned"
    /\ Len(data) < MaxRows
    /\ \E row \in Rows : data' = Append(data, row)
    /\ pc' = "ready"
    /\ UNCHANGED <<result, prev, calls, parseVars, appVars, modalVars, laterVars>>

Next == Process \/ IngestRow

Spec == Init /\ [][Next]_vars

InitParse ==
    /\ dateString \in DateInputs
    /\ tz \in Offsets
    /\ parsed = NullDate
    /\ ppc = "ready"
    /\ genericParse = Invalid
    /\ AggregateIdle
    /\ MappingIdle
    /\ ChatIdle
    /\ HandlerIdle
    /\ FilterIdle
    /\ KeyIdle

\* a call of parseDate on a host whose engine parses the string one of its ways
ParseDate ==
    /\ ppc = "ready"
    /\ IF TrimThrows(dateString)
       THEN ppc' = "threw" /\ UNCHANGED <<parsed, genericParse>>
       ELSE /\ \E isoAttempt \in (IF Unparseable(dateString) THEN {Invalid}
                                  ELSE NewDate(dateString.str, tz)) :
                    /\ genericParse' = isoAttempt
                    /\ parsed' = parseDate(dateString, isoAttempt, tz)
            /\ ppc' = "returned"
    /\ UNCHANGED <<aggregateVars, dateString, tz, appVars, modalVars, laterVars>>

NextParse == ParseDate

SpecParse == InitParse /\ [][NextParse]_vars

(***************************************************************************)
(* The upload and mapping dialogue.                                        *)
(***************************************************************************)
InitMapping ==
    /\ MappingIdle
    /\ AggregateIdle
    /\ ParseIdle
    /\ ChatIdle
    /\ HandlerIdle
    /\ FilterIdle
    /\ KeyIdle

\* resetDashboard, on the state kept here; closing the modal unmounts it
resetDashboard ==
    /\ originalData' = <<>>
    /\ unmappedData' = <<>>
    /\ csvHeaders' = <<>>
    /\ isMappingModalOpen' = FALSE
    /\ uploadError' = ""

\* the state of a DataMappingModal that is not mounted
Unmounted ==
    /\ mapping' = <<>>
    /\ previewData' = <<>>
    /\ showPreview' = FALSE
    /\ changes' = 0

\* handleFileUpload: reset, then start the asynchronous parse of the file
handleFileUpload ==
    /\ uploads < MaxUploads
    /\ \E file \in Files : parsing' = Append(parsing, file) /\ lastFile' = file
    /\ uploads' = uploads + 1
    /\ resetDashboard
    /\ Unmounted
    /\ UNCHANGED <<aggregateVars, parseVars, laterVars>>

\* Papa.parse's complete callback; the modal's mapping effect runs on the
\* new headers, at its mount or at the change of its headers prop
ParseComplete ==
    /\ \E i \in 1..Len(parsing) :
      LET file == parsing[i]
      IN
        /\ parsing' = SubSeq(parsing, 1, i - 1) \o SubSeq(parsing, i + 1, Len(parsing))
        /\ IF Len(file) = 0
           THEN /\ uploadError' = "CSV file is empty or could not be read."
                /\ UNCHANGED <<unmappedData, csvHeaders, isMappingModalOpen, mapping,
                               previewData, showPreview, changes>>
           ELSE /\ unmappedData' = file
                /\ csvHeaders' = ObjectKeys(file[1])
                /\ isMappingModalOpen' = TRUE
                /\ mapping' = initialMapping(ObjectKeys(file[1]))
                /\ IF isMappingModalOpen
                   THEN UNCHANGED <<previewData, showPreview, changes>>
                   ELSE previewData' = <<>> /\ showPreview' = FALSE /\ changes' = 0
                /\ UNCHANGED uploadError
    /\ UNCHANGED <<aggregateVars, parseVars, uploads, lastFile, originalData, laterVars>>

\* handleMappingChange(key, value): a selection in one of the drop-downs
handleMappingChange ==
    /\ isMappingModalOpen
    /\ changes < MaxChanges
    /\ \E i \in 1..Len(FieldKeys) :
           \E value \in {""} \cup {csvHeaders[j] : j \in 1..Len(csvHeaders)} :
               mapping' = ObjSet(mapping, FieldKeys[i], Str(value))
    /\ showPreview' = FALSE
    /\ changes' = changes + 1
    /\ UNCHANGED <<aggregateVars, parseVars, appVars, previewData, laterVars>>

missingRequired ==
    \E i \in 1..Len(requiredKeys) : ~Truthy(ObjGet(mapping, requiredKeys[i]))

\* handlePreview
handlePreview ==
    /\ isMappingModalOpen
    /\ IF missingRequired
       THEN UNCHANGED <<previewData, showPreview>>
       ELSE /\ previewData' =
                   [i \in 1..(IF Len(unmappedData) < 5 THEN Len(unmappedData) ELSE 5) |->
                       newRow(unmappedData[i], mapping)]
            /\ showPreview' = TRUE
    /\ UNCHANGED <<aggregateVars, parseVars, appVars, mapping, changes, laterVars>>

\* handleConfirm, and App's handleMappingConfirm that it calls
handleConfirm ==
    /\ isMappingModalOpen
    /\ IF ~showPreview
       THEN UNCHANGED <<appVars, modalVars>>
       ELSE /\ originalData' \in MappedData(unmappedData, mapping)
            /\ isMappingModalOpen' = FALSE
            /\ Unmounted
            /\ UNCHANGED <<parsing, uploads, lastFile, unmappedData, csvHeaders,
                           uploadError>>
    /\ UNCHANGED <<aggregateVars, parseVars, laterVars>>

\* the modal's Cancel: setMappingModalOpen(false); resetDashboard()
onClose ==
    /\ isMappingModalOpen
    /\ resetDashboard
    /\ Unmounted
    /\ UNCHANGED <<aggregateVars, parseVars, parsing, uploads, lastFile, laterVars>>

NextMapping ==
    \/ handleFileUpload
    \/ ParseComplete
    \/ handleMappingChange
    \/ handlePreview
    \/ handleConfirm
    \/ onClose

SpecMapping == InitMapping /\ [][NextMapping]_vars

(***************************************************************************)
(* The chat components.                                                    *)
(***************************************************************************)
InitChat ==
    /\ chatComponent \in {"FloatingAiChat", "AiAnalyst"}
    /\ isDataLoaded = FALSE
    /\ query = ""
    /\ messages = <<>>
    /\ isLoading = FALSE
    /\ pending = <<>>
    /\ asked = 0
    /\ AggregateIdle
    /\ ParseIdle
    /\ MappingIdle
    /\ HandlerIdle
    /\ FilterIdle
    /\ KeyIdle

\* a variant of the input's disabled attribute that ignores isLoading
InputDisabled_WithoutData == ~isDataLoaded

\* disabled={!isDataLoaded || isLoading} of the text input
InputDisabled == ~isDataLoaded \/ isLoading

\* the parent loads or resets its data: the isDataLoaded prop changes
setDataLoaded ==
    /\ chatComponent # "none"
    /\ isDataLoaded' = ~isDataLoaded
    /\ UNCHANGED <<chatComponent, query, messages, isLoading, pending, asked, notChatVars>>

\* onChange of the text input
setQuery ==
    /\ chatComponent # "none"
    /\ ~InputDisabled
    /\ \E text \in Queries : query' = text
    /\ UNCHANGED <<chatComponent, isDataLoaded, messages, isLoading, pending, asked,
                   notChatVars>>

\* FloatingAiChat.handleSubmit, up to its await; Enter in the text input calls it
handleSubmit ==
    /\ chatComponent = "FloatingAiChat"
    /\ ~InputDisabled
    /\ asked < MaxQuestions
    /\ IF Trim(query) = "" \/ ~isDataLoaded \/ isLoading
       THEN UNCHANGED <<query, messages, isLoading, pending, asked>>
       ELSE /\ messages' = Append(messages, [role |-> "user", content |-> query])
            /\ query' = ""
            /\ isLoading' = TRUE
            /\ pending' = Append(pending, query)
            /\ asked' = asked + 1
    /\ UNCHANGED <<chatComponent, isDataLoaded, notChatVars>>

\* the text of the assistant message for an outcome of geminiService.analyzeData
SubmitReply(question, outcome) ==
    CASE outcome = "answer" -> "Insights for:" \o question
      [] outcome = "error message" ->
            "An error occurred while communicating with the AI. Please try again later."
      [] OTHER ->
            "Sorry, I encountered an error while processing your request. Please try again."

\* FloatingAiChat.handleSubmit from its await on: try, catch and finally
SubmitSettles ==
    /\ chatComponent = "FloatingAiChat"
    /\ \E i \in 1..Len(pending), outcome \in Outcomes :
           /\ messages' = Append(messages, [role |-> "assistant",
                                            content |-> SubmitReply(pending[i], outcome)])
           /\ pending' = SubSeq(pending, 1, i - 1) \o SubSeq(pending, i + 1, Len(pending))
    /\ isLoading' = FALSE
    /\ UNCHANGED <<chatComponent, isDataLoaded, query, asked, notChatVars>>

\* AiAnalyst.handleQuery, up to its await; Enter in the text input calls it
handleQuery ==
    /\ chatComponent = "AiAnalyst"
    /\ ~InputDisabled
    /\ asked < MaxQuestions
    /\ IF Trim(query) = ""
       THEN UNCHANGED <<query, messages, isLoading, pending, asked>>
       ELSE /\ messages' = Append(messages, [isUser |-> TRUE, text |-> Trim(query)])
            /\ query' = ""
            /\ isLoading' = TRUE
            /\ pending' = Append(pending, Trim(query))
            /\ asked' = asked + 1
    /\ UNCHANGED <<chatComponent, isDataLoaded, notChatVars>>

\* the text of the AI message for an outcome of callGeminiApi
QueryReply(question, outcome) ==
    CASE outcome = "answer" -> "Answer to:" \o question
      [] outcome = "error message" ->
            "An error occurred while communicating with the AI. Please try again later."
      [] OTHER ->
            "Sorry, I encountered an error while processing your request. Please try again."

\* AiAnalyst.handleQuery from its await on: try, catch and setIsLoading(false)
QuerySettles ==
    /\ chatComponent = "AiAnalyst"
    /\ \E i \in 1..Len(pending), outcome \in Outcomes :
           /\ messages' = Append(messages, [isUser |-> FALSE,
                                            text |-> QueryReply(pending[i], outcome)])
           /\ pending' = SubSeq(pending, 1, i - 1) \o SubSeq(pending, i + 1, Len(pending))
    /\ isLoading' = FALSE
    /\ UNCHANGED <<chatComponent, isDataLoaded, query, asked, notChatVars>>

\* clearChat: the Clear button is rendered while there are messages
clearChat ==
    /\ chatComponent # "none"
    /\ Len(messages) > 0
    /\ messages' = <<>>
    /\ UNCHANGED <<chatComponent, isDataLoaded, query, isLoading, pending, asked,
                   notChatVars>>

NextChat ==
    \/ setDataLoaded
    \/ setQuery
    \/ handleSubmit
    \/ SubmitSettles
    \/ handleQuery
    \/ QuerySettles
    \/ clearChat

SpecChat == InitChat /\ [][NextChat]_vars

(***************************************************************************)
(* The serverless function /api/gemini: one invocation.                    *)
(***************************************************************************)
InitHandler ==
    /\ API_KEY \in ApiKeys
    /\ req = NoRequest
    /\ hpc = "idle"
    /\ primaryModel = ""
    /\ upstream = <<>>
    /\ responses = <<>>
    /\ AggregateIdle
    /\ ParseIdle
    /\ MappingIdle
    /\ ChatIdle
    /\ FilterIdle
    /\ KeyIdle

altModel == "gemini-1.5-pro"

\* res.status(status).json({ error })
ErrorResponse(status, error) ==
    [status |-> status, error |-> error, text |-> "", modelUsed |-> ""]

\* a variant that retries whenever the first call was not ok
Retries_OnAnyError(r, model) == ~r.threw /\ r.status \notin 200..299 /\ model # altModel

\* !r1.ok && r1.status === 404 && primaryModel !== altModel
Retries(r, model) ==
    ~r.threw /\ r.status \notin 200..299 /\ r.status = 404 /\ model # altModel

\* the handler from the check of r1.ok on, and its catch
Respond(r) ==
    IF r.threw
    THEN ErrorResponse(500, "Internal server error contacting Gemini")
    ELSE IF r.status \notin 200..299
    THEN ErrorResponse(r.status, "Gemini upstream error")
    ELSE IF Trim(r.text) = ""
    THEN ErrorResponse(502, "Empty response from Gemini")
    ELSE [status |-> 200, error |-> "", text |-> Trim(r.text),
          modelUsed |-> primaryModel]

\* a variant that looks at the key before the method
Rejection_KeyFirst(key, request) ==
    IF key = ""
    THEN ErrorResponse(401, "Server Gemini API key not configured. Set GEMINI_API_KEY in Vercel project settings.")
    ELSE IF request.method # "POST"
    THEN ErrorResponse(405, "Method not allowed")
    ELSE IF ~Truthy(request.userContent) \/ request.userContent.kind # "string"
    THEN ErrorResponse(400, "Missing userContent string in body")
    ELSE ErrorResponse(0, "")

\* a variant that lets a request without a key through
Rejection_WithoutKeyCheck(key, request) ==
    IF request.method # "POST"
    THEN ErrorResponse(405, "Method not allowed")
    ELSE IF ~Truthy(request.userContent) \/ request.userContent.kind # "string"
    THEN ErrorResponse(400, "Missing userContent string in body")
    ELSE ErrorResponse(0, "")

\* the handler's checks before any upstream call; status 0: none of them applies
Rejection(key, request) ==
    IF request.method # "POST"
    THEN ErrorResponse(405, "Method not allowed")
    ELSE IF key = ""
    THEN ErrorResponse(401, "Server Gemini API key not configured. Set GEMINI_API_KEY in Vercel project settings.")
    ELSE IF ~Truthy(request.userContent) \/ request.userContent.kind # "string"
    THEN ErrorResponse(400, "Missing userContent string in body")
    ELSE ErrorResponse(0, "")

\* the handler from its entry to its first await
handler ==
    /\ hpc = "idle"
    /\ \E method \in Methods, userContent \in UserContents, model \in RequestedModels :
        LET request == [method |-> method, userContent |-> userContent, model |-> model]
        IN  /\ req' = request
            /\ IF Rejection(API_KEY, request).status # 0
               THEN /\ responses' = Append(responses, Rejection(API_KEY, request))
                    /\ hpc' = "done"
                    /\ UNCHANGED <<primaryModel, upstream>>
               ELSE /\ primaryModel' = (IF Truthy(model) THEN model.str
                                        ELSE "gemini-1.5-flash")
                    /\ upstream' = Append(upstream,
                           [model |-> (IF Truthy(model) THEN model.str
                                       ELSE "gemini-1.5-flash"),
                            result |-> Unsettled])
                    /\ hpc' = "first call"
                    /\ UNCHANGED responses
    /\ UNCHANGED <<API_KEY, notHandlerVars>>

\* the first callModel settles: a retry with the fallback model, or the response
FirstCallSettles ==
    /\ hpc = "first call"
    /\ \E r \in UpstreamResults :
           IF Retries(r, primaryModel)
           THEN /\ upstream' = Append([upstream EXCEPT ![1].result = r],
                                      [model |-> altModel, result |-> Unsettled])
                /\ hpc' = "second call"
                /\ UNCHANGED responses
           ELSE /\ upstream' = [upstream EXCEPT ![1].result = r]
                /\ responses' = Append(responses, Respond(r))
                /\ hpc' = "done"
    /\ UNCHANGED <<API_KEY, req, primaryModel, notHandlerVars>>

\* the second callModel settles: the response
SecondCallSettles ==
    /\ hpc = "second call"
    /\ \E r \in UpstreamResults :
           /\ upstream' = [upstream EXCEPT ![2].result = r]
           /\ responses' = Append(responses, Respond(r))
    /\ hpc' = "done"
    /\ UNCHANGED <<API_KEY, req, primaryModel, notHandlerVars>>

NextHandler == handler \/ FirstCallSettles \/ SecondCallSettles

SpecHandler == InitHandler /\ [][NextHandler]_vars

\* the platform runs the handler, and every fetch settles
SpecHandlerFair == SpecHandler /\ WF_vars(NextHandler)

(***************************************************************************)
(* App: the data is loaded, then segments of the status chart are clicked. *)
(***************************************************************************)
\* the collections loaded: the scenarios and every two order rows
LoadedCollections ==
    Scenarios \cup {<<first, second>> : first \in OrderRows, second \in OrderRows}

InitFilter ==
    /\ AggregateIdle
    /\ FilterIdle
    /\ KeyIdle
    /\ ParseIdle
    /\ MappingIdle
    /\ ChatIdle
    /\ HandlerIdle

\* handleMappingConfirm's setOriginalData and the effect on originalData
LoadData ==
    /\ pc = "idle"
    /\ \E loaded \in LoadedCollections :
           /\ ~Throws(loaded)
           /\ data' = loaded
           /\ result' = processDataForDashboard(loaded)
           /\ filteredOrders' = processDataForDashboard(loaded).orders
    /\ prev' = result
    /\ calls' = calls + 1
    /\ pc' = "returned"
    /\ UNCHANGED <<clicked, clicks, notFilterVars>>

\* payload && payload.name
SegmentNamed(payload) == payload.name # ""

\* handleChartClick(payload), payload being a segment of the status chart
handleChartClick ==
    /\ pc = "returned"
    /\ clicks < MaxClicks
    /\ \E k \in 1..Len(result.ordersChartData) :
        LET payload == result.ordersChartData[k]
            clickedStatus == payload.name
            allOrders == SelectSeq(data, LAMBDA row : row.type = "order")
            isAlreadyFiltered ==
                /\ Len(filteredOrders) < Len(allOrders)
                /\ \A i \in 1..Len(filteredOrders) : filteredOrders[i].status = clickedStatus
        IN  /\ clicked' = payload.name
            /\ IF SegmentNamed(payload)
               THEN IF isAlreadyFiltered
                    THEN filteredOrders' = allOrders
                    ELSE filteredOrders' =
                             SelectSeq(allOrders, LAMBDA order : order.status = clickedStatus)
               ELSE UNCHANGED filteredOrders
    /\ clicks' = clicks + 1
    /\ UNCHANGED <<aggregateVars, notFilterVars>>

NextFilter == LoadData \/ handleChartClick

SpecFilter == InitFilter /\ [][NextFilter]_vars

(***************************************************************************)
(* geminiService: the module is loaded, then keys are set and cleared.     *)
(***************************************************************************)
\* what localStorage holds when the module is loaded
StoredKeys == {"", "AIzaStoredKey01"}

\* the keys a build may carry
BuildKeys == {"", "AIzaBuildKey001"}

\* the keys the user may enter
KeyInputs == {"", "short", "         ", "  AIzaRuntimeKey1 ", "AIzaRuntimeKey2"}

\* resolveApiKey(), given the runtime key
resolveApiKey(runtime) == IF runtime # "" THEN runtime ELSE buildTimeKey

\* the client initClient() leaves, given the runtime key and whether the
\* constructor of GoogleGenAI returns
initClient(runtime, constructed) ==
    IF resolveApiKey(runtime) = "" THEN ""
    ELSE IF constructed THEN resolveApiKey(runtime)
    ELSE ""

isAiEnabled == ai # "" /\ resolveApiKey(runtimeApiKey) # ""

getActiveApiKeySource ==
    IF runtimeApiKey # "" THEN "runtime"
    ELSE IF buildTimeKey # "" THEN "build"
    ELSE "none"

\* the module's top level: readLocalStorageKey(), buildTimeKey, initClient()
InitKey ==
    /\ localStorageKey \in StoredKeys
    /\ runtimeApiKey \in {localStorageKey, ""}
    /\ buildTimeKey \in BuildKeys
    /\ ai \in {initClient(runtimeApiKey, constructed) : constructed \in BOOLEAN}
    /\ keyResult = NoResult
    /\ keyCalls = 0
    /\ AggregateIdle
    /\ ParseIdle
    /\ MappingIdle
    /\ ChatIdle
    /\ HandlerIdle
    /\ FilterIdle

\* the first statement's test: !key || key.trim().length < 10
TooShort(key) == key = "" \/ Len(Trim(key)) < 10

\* setRuntimeApiKey(key); localStorage.setItem may throw, and so may the
\* constructor of GoogleGenAI
setRuntimeApiKey ==
    /\ keyCalls < MaxKeyCalls
    /\ keyCalls' = keyCalls + 1
    /\ \E key \in KeyInputs, setItemThrows \in BOOLEAN, constructed \in BOOLEAN :
        IF TooShort(key)
        THEN /\ keyResult' =
                    [success |-> FALSE, message |-> "API key appears invalid (too short)."]
             /\ UNCHANGED <<runtimeApiKey, localStorageKey, ai>>
        ELSE /\ runtimeApiKey' = Trim(key)
             /\ IF setItemThrows
                THEN /\ keyResult' =
                            [success |-> FALSE, message |-> "Unexpected error storing key."]
                     /\ UNCHANGED <<localStorageKey, ai>>
                ELSE /\ localStorageKey' = Trim(key)
                     /\ ai' = initClient(Trim(key), constructed)
                     /\ keyResult' =
                            IF initClient(Trim(key), constructed) = ""
                            THEN [success |-> FALSE,
                                  message |->
                                      "Failed to initialize AI client with provided key."]
                            ELSE [success |-> TRUE,
                                  message |-> "API key saved for this browser."]
    /\ UNCHANGED <<buildTimeKey, notKeyVars>>

\* clearRuntimeApiKey(); localStorage.removeItem may throw
clearRuntimeApiKey ==
    /\ runtimeApiKey' = ""
    /\ \E removeItemThrows \in BOOLEAN, constructed \in BOOLEAN :
        /\ localStorageKey' = IF removeItemThrows THEN localStorageKey ELSE ""
        /\ ai' = initClient("", constructed)
    /\ UNCHANGED <<buildTimeKey, keyResult, keyCalls, notKeyVars>>

NextKey == setRuntimeApiKey \/ clearRuntimeApiKey

SpecKey == InitKey /\ [][NextKey]_vars

(***************************************************************************)
(* What the input holds, counted from the rows themselves.                 *)
(***************************************************************************)
OrderIdx == {i \in 1..Len(data) : data[i].type = "order"}

ShipmentIdx == {i \in 1..Len(data) : data[i].type = "shipment"}

InventoryIdx == {i \in 1..Len(data) : data[i].type = "inventory"}

FulfilledIdx == {i \in OrderIdx : data[i].status \in {"Shipped", "Delivered"}}

DeliveredIdx ==
    {i \in OrderIdx : /\ data[i].status = "Delivered"
                      /\ ~data[i].order_date.null
                      /\ ~data[i].delivery_date.null}

RequiredIdx == {i \in ShipmentIdx : ~data[i].required_shipping_date.null}

OnTimeIdx ==
    {i \in RequiredIdx : /\ ~data[i].ship_date.null
                         /\ data[i].ship_date.time <= data[i].required_shipping_date.time}

RECURSIVE SumOver(_, _)
SumOver(S, f) ==
    IF S = {} THEN 0
    ELSE LET i == CHOOSE j \in S : TRUE IN f[i] + SumOver(S \ {i}, f)

QuantityAt == [i \in 1..Len(data) |-> data[i].quantity]

CycleMinutesAt ==
    [i \in 1..Len(data) |-> data[i].delivery_date.time - data[i].order_date.time]

InRange0To100(x) == IsFinite(x) /\ x.num >= 0 /\ x.num <= 100 * x.den

(***************************************************************************)
(* C1: for every row collection, fillRate and onTimeRate lie within        *)
(* [0, 100] and inventoryTurnover is at least 0.                           *)
(***************************************************************************)
C1_KpiRanges ==
    pc = "returned" =>
        /\ InRange0To100(result.kpis.fillRate)
        /\ InRange0To100(result.kpis.onTimeRate)
        /\ IsFinite(result.kpis.inventoryTurnover)
        /\ result.kpis.inventoryTurnover.num >= 0

(***************************************************************************)
(* C2: cycleTime is 'N/A' if and only if no order is Delivered with both   *)
(* its order_date and its delivery_date; otherwise it is a number, a       *)
(* genuine 0 included.                                                     *)
(***************************************************************************)
C2_NotApplicableIffNoDelivered ==
    pc = "returned" =>
        /\ (result.kpis.cycleTime = NotApplicable) <=> (DeliveredIdx = {})
        /\ DeliveredIdx # {} => IsFinite(result.kpis.cycleTime)

C2_Witness ==
    /\ pc = "returned"
    /\ DeliveredIdx # {}
    /\ \A i \in DeliveredIdx : data[i].order_date = data[i].delivery_date
    /\ result.kpis.cycleTime = Whole(0)

(***************************************************************************)
(* C3: adding a shipment whose required_shipping_date is null to a         *)
(* collection leaves onTimeRate as it was, whatever its ship_date.         *)
(***************************************************************************)
AddedShipmentWithoutRequiredDate ==
    /\ pc = "returned"
    /\ calls >= 2
    /\ Len(data) >= 1
    /\ data[Len(data)].type = "shipment"
    /\ data[Len(data)].required_shipping_date.null

C3_NullRequiredDateIgnored ==
    AddedShipmentWithoutRequiredDate => result.kpis.onTimeRate = prev.kpis.onTimeRate

C3_Witness ==
    /\ AddedShipmentWithoutRequiredDate
    /\ ~data[Len(data)].ship_date.null
    /\ prev.kpis.onTimeRate = Whole(100)
    /\ result.kpis.onTimeRate = Whole(100)

(***************************************************************************)
(* C4: parseDate("2024-03-15") and parseDate("3/15/2024") both return      *)
(* March 15, 2024 at UTC midnight, in every time zone of the host.         *)
(***************************************************************************)
C4_IsoAndSlashGiveMarch15 ==
    (ppc = "returned" /\ dateString \in {Str("2024-03-15"), Str("3/15/2024")})
        => parsed = Day(2024, 3, 15)

(***************************************************************************)
(* C5: an input without order, shipment or inventory rows (the empty one   *)
(* in particular) gives fillRate 0, onTimeRate 0, inventoryTurnover 0,     *)
(* cycleTime 'N/A', three empty charts and no orders, without an error.    *)
(***************************************************************************)
C5_EmptyInputGivesDefaults ==
    (pc \in {"returned", "threw"} /\ OrderIdx = {} /\ ShipmentIdx = {} /\ InventoryIdx = {}) =>
        /\ pc = "returned"
        /\ result.kpis.fillRate = Whole(0)
        /\ result.kpis.onTimeRate = Whole(0)
        /\ result.kpis.inventoryTurnover = Whole(0)
        /\ result.kpis.cycleTime = Str("N/A")
        /\ result.ordersChartData = <<>>
        /\ result.inventoryChartData = <<>>
        /\ result.volumeChartData = <<>>
        /\ result.orders = <<>>

C5_Witness == pc = "returned" /\ calls = 1 /\ data = <<>>

(***************************************************************************)
(* C6: fillRate is 100 times the number of order rows whose status is      *)
(* exactly 'Shipped' or 'Delivered' over the number of order rows, and 0   *)
(* without order rows.                                                     *)
(***************************************************************************)
C6_FillRateFormula ==
    pc = "returned" =>
        /\ IsFinite(result.kpis.fillRate)
        /\ IF OrderIdx = {}
           THEN result.kpis.fillRate = Whole(0)
           ELSE result.kpis.fillRate.num * Cardinality(OrderIdx)
                    = 100 * Cardinality(FulfilledIdx) * result.kpis.fillRate.den

C6_Witness ==
    /\ pc = "returned"
    /\ Cardinality(OrderIdx) = 10
    /\ Cardinality({i \in OrderIdx : data[i].status = "Shipped"}) = 6
    /\ Cardinality({i \in OrderIdx : data[i].status = "Delivered"}) = 2
    /\ result.kpis.fillRate = Whole(80)

(***************************************************************************)
(* C7: with a Delivered order that has both dates, cycleTime is the mean   *)
(* of delivery_date - order_date in days over exactly those orders,        *)
(* rounded to one decimal place after averaging.                           *)
(***************************************************************************)
\* ct is a whole number of tenths, at most half a tenth from total / (1440 n) days,
\* and a tie is rounded away from zero
IsMeanInTenths(ct, total, n) ==
    /\ IsFinite(ct)
    /\ 10 % ct.den = 0
    /\ LET tenths == ct.num * (10 \div ct.den)
           diff   == MinutesPerDay * n * tenths - 10 * total
       IN  /\ 2 * Abs(diff) <= MinutesPerDay * n
           /\ 2 * Abs(diff) = MinutesPerDay * n => Sign(diff) = Sign(total)

C7_CycleTimeIsRoundedMean ==
    (pc = "returned" /\ DeliveredIdx # {}) =>
        IsMeanInTenths(result.kpis.cycleTime, SumOver(DeliveredIdx, CycleMinutesAt),
                       Cardinality(DeliveredIdx))

C7_Witness ==
    /\ pc = "returned"
    /\ Cardinality(DeliveredIdx) = 3
    /\ {CycleMinutesAt[i] : i \in DeliveredIdx}
           = {2 * MinutesPerDay, 4 * MinutesPerDay, 6 * MinutesPerDay}
    /\ result.kpis.cycleTime = Whole(4)

(***************************************************************************)
(* C8: onTimeRate is 100 times the number of shipments with both dates     *)
(* and ship_date <= required_shipping_date over the number of shipments    *)
(* with a required_shipping_date, and 0 when there is none.                *)
(***************************************************************************)
C8_OnTimeRateFormula ==
    pc = "returned" =>
        /\ IsFinite(result.kpis.onTimeRate)
        /\ IF RequiredIdx = {}
           THEN result.kpis.onTimeRate = Whole(0)
           ELSE result.kpis.onTimeRate.num * Cardinality(RequiredIdx)
                    = 100 * Cardinality(OnTimeIdx) * result.kpis.onTimeRate.den

C8_Witness ==
    /\ pc = "returned"
    /\ Cardinality(ShipmentIdx) = 5
    /\ Cardinality(RequiredIdx) = 3
    /\ Cardinality(OnTimeIdx) = 2
    /\ result.kpis.onTimeRate = Rat(200, 3)

(***************************************************************************)
(* C9: inventoryTurnover is the shipped quantity over A, the total         *)
(* inventory over (inventory rows / distinct products, or 1 if that is     *)
(* 0); and it is 0 exactly when A is 0.                                    *)
(***************************************************************************)
ShippedQuantity == SumOver(FulfilledIdx, QuantityAt)

InventoryTotal == SumOver(InventoryIdx, QuantityAt)

InventoryCount == Cardinality(InventoryIdx)

ProductCount == Cardinality({data[i].product_name : i \in InventoryIdx})

\* A: the total over (rows / products), the total itself without inventory rows
AverageInventory ==
    IF InventoryCount = 0 THEN Whole(InventoryTotal)
    ELSE Rat(InventoryTotal * ProductCount, InventoryCount)

\* the claim as stated
C9_TurnoverOverAverageInventory ==
    pc = "returned" =>
        /\ IsFinite(result.kpis.inventoryTurnover)
        /\ AverageInventory # Whole(0) =>
               result.kpis.inventoryTurnover
                   = JsDiv(Whole(ShippedQuantity), AverageInventory)
        /\ (result.kpis.inventoryTurnover = Whole(0)) <=> (AverageInventory = Whole(0))

\* the claim as amended: the quotient when the total inventory is positive, else 0
C9_TurnoverWhenInventoryPositive ==
    pc = "returned" =>
        /\ IsFinite(result.kpis.inventoryTurnover)
        /\ IF InventoryTotal > 0
           THEN result.kpis.inventoryTurnover
                    = Rat(ShippedQuantity * InventoryCount, InventoryTotal * ProductCount)
           ELSE result.kpis.inventoryTurnover = Whole(0)

C9_Witness ==
    /\ pc = "returned"
    /\ InventoryTotal > 0
    /\ InventoryCount > ProductCount
    /\ ShippedQuantity # 0
    /\ result.kpis.inventoryTurnover # Whole(0)

(***************************************************************************)
(* C10: on rows whose dates are valid or null the call never throws and    *)
(* returns a complete result.                                              *)
(***************************************************************************)
IsChart(chart) == \A i \in 1..Len(chart) : chart[i].name \in STRING

CompleteResult(r) ==
    /\ ~IsNaN(r.kpis.fillRate) /\ r.kpis.fillRate.kind = "number"
    /\ ~IsNaN(r.kpis.onTimeRate) /\ r.kpis.onTimeRate.kind = "number"
    /\ ~IsNaN(r.kpis.inventoryTurnover) /\ r.kpis.inventoryTurnover.kind = "number"
    /\ \/ r.kpis.cycleTime = Str("N/A")
       \/ r.kpis.cycleTime.kind = "number" /\ ~IsNaN(r.kpis.cycleTime)
    /\ IsChart(r.ordersChartData)
    /\ IsChart(r.inventoryChartData)
    /\ IsChart(r.volumeChartData)
    /\ Len(r.orders) = Cardinality(OrderIdx)

C10_NeverThrows ==
    /\ pc # "threw"
    /\ pc = "returned" => CompleteResult(result)

C10_Witness ==
    /\ pc = "returned"
    /\ \E i \in OrderIdx : data[i].status = "Delivered" /\ data[i].delivery_date.null
    /\ \E i \in OrderIdx : data[i].status = "Delivered" /\ data[i].order_date.null
    /\ \E i \in InventoryIdx : data[i].location = ""

(***************************************************************************)
(* C11: parseDate returns null and never throws for every input that is    *)
(* no string, for the empty and the whitespace-only string, and for every  *)
(* string that neither new Date nor the fallback pattern accepts.          *)
(***************************************************************************)
NotAccepted ==
    \/ dateString.kind # "string"
    \/ dateString.str = ""
    \/ \A i \in 1..Len(dateString.str) : CharAt(dateString.str, i) = " "
    \/ ~genericParse.valid /\ ~MatchFrom(dateString.str, 1).ok

C11_UnparseableGivesNull ==
    /\ ppc # "threw"
    /\ (ppc = "returned" /\ NotAccepted) => parsed = NullDate

C11_Witness ==
    /\ ppc = "returned"
    /\ dateString = Str("not-a-date")
    /\ ~genericParse.valid
    /\ parsed = NullDate

(***************************************************************************)
(* C12: a result produced by the fallback pattern is UTC midnight of the   *)
(* day whose month, day of month and year are the three captured numbers;  *)
(* captures that are no calendar date give no other, rolled-over date.     *)
(***************************************************************************)
ThroughFallback ==
    /\ ppc = "returned"
    /\ dateString.kind = "string"
    /\ ~genericParse.valid
    /\ MatchFrom(dateString.str, 1).ok
    /\ ~parsed.null

C12_FallbackKeepsCapturedDate ==
    ThroughFallback =>
        /\ parsed.time % MinutesPerDay = 0
        /\ CivilFromDays(parsed.time \div MinutesPerDay)
               = [y |-> MatchFrom(dateString.str, 1).g3,
                  m |-> MatchFrom(dateString.str, 1).g1,
                  d |-> MatchFrom(dateString.str, 1).g2]

(***************************************************************************)
(* C14: processDataForDashboard leaves its input unchanged: over the call  *)
(* the collection keeps its length, its order and every field of every row.*)
(***************************************************************************)
CallStep == pc = "ready" /\ pc' \in {"returned", "threw"}

C14_InputUnchanged ==
    [][CallStep =>
         /\ Len(data') = Len(data)
         /\ \A i \in 1..Len(data) : data'[i] = data[i]]_vars

C14_Witness ==
    /\ pc = "returned"
    /\ calls >= 2
    /\ Len(data) >= 2
    /\ data[1] # data[Len(data)]

(***************************************************************************)
(* C15: rows whose type is none of 'order', 'shipment' and 'inventory'     *)
(* (other capitalisations and the empty string included) have no influence *)
(* on the KPIs, on the three charts or on the orders subset: the result is *)
(* the result for the collection with those rows removed.                  *)
(***************************************************************************)
KnownTypes == {"order", "shipment", "inventory"}

WithoutOtherTypes == SelectSeq(data, LAMBDA row : row.type \in KnownTypes)

C15_OtherTypesHaveNoInfluence ==
    (pc = "returned" /\ ~Throws(WithoutOtherTypes)) =>
        LET reduced == processDataForDashboard(WithoutOtherTypes)
        IN  /\ result.kpis = reduced.kpis
            /\ result.ordersChartData = reduced.ordersChartData
            /\ result.inventoryChartData = reduced.inventoryChartData
            /\ result.volumeChartData = reduced.volumeChartData
            /\ result.orders = reduced.orders

C15_Witness ==
    /\ pc = "returned"
    /\ \E i \in 1..Len(data) : data[i].type = ""
    /\ \E i \in 1..Len(data) : data[i].type = "ORDER"
    /\ Len(WithoutOtherTypes) = 3
    /\ Len(result.orders) = 1

(***************************************************************************)
(* C16: the orders field of the result is the subsequence of the input     *)
(* rows of type 'order', in input order: no order row is dropped,          *)
(* duplicated or filtered by its status or its dates.                      *)
(***************************************************************************)
\* the position in the input of the k-th row of type 'order'
KthOrder(k) ==
    CHOOSE i \in OrderIdx : Cardinality({j \in OrderIdx : j < i}) = k - 1

C16_OrdersIsOrderSubsequence ==
    pc = "returned" =>
        /\ Len(result.orders) = Cardinality(OrderIdx)
        /\ \A k \in 1..Len(result.orders) : result.orders[k] = data[KthOrder(k)]

C16_Witness ==
    /\ pc = "returned"
    /\ Len(data) = 3
    /\ data[1].type = "order" /\ data[1].order_date.null
    /\ data[2].type # "order"
    /\ data[3].type = "order" /\ data[3].status = "Processing"
    /\ Len(result.orders) = 2

(***************************************************************************)
(* C17: the status chart lists the distinct status values of the order     *)
(* rows in the order of their first occurrence in the input, each with the *)
(* number of order rows that have it, for every status string, the ones    *)
(* that look like numbers ("1", "20") included.                            *)
(***************************************************************************)
\* the k-th smallest element of a set of positions
KthOf(S, k) == CHOOSE i \in S : Cardinality({j \in S : j < i}) = k - 1

\* the positions at which a status occurs for the first time among the orders
FirstOfStatusIdx ==
    {i \in OrderIdx : \A j \in OrderIdx : j < i => data[j].status # data[i].status}

WithStatusIdx(status) == {i \in OrderIdx : data[i].status = status}

C17_StatusChartInFirstOccurrenceOrder ==
    pc = "returned" =>
        /\ Len(result.ordersChartData) = Cardinality(FirstOfStatusIdx)
        /\ \A k \in 1..Cardinality(FirstOfStatusIdx) :
               k <= Len(result.ordersChartData) =>
                   LET status == data[KthOf(FirstOfStatusIdx, k)].status
                   IN  result.ordersChartData[k]
                           = [name |-> status,
                              value |-> Whole(Cardinality(WithStatusIdx(status)))]

(***************************************************************************)
(* C18: the inventory chart has exactly one entry per distinct location of *)
(* the inventory rows, an empty location counting as 'Unknown', and the    *)
(* entry's quantity is the sum of the quantities of that location's rows.  *)
(***************************************************************************)
LocationAt ==
    [i \in 1..Len(data) |->
        IF data[i].location = "" THEN "Unknown" ELSE data[i].location]

Locations == {LocationAt[i] : i \in InventoryIdx}

AtLocationIdx(location) == {i \in InventoryIdx : LocationAt[i] = location}

EntriesNamed(chart, name) == {k \in 1..Len(chart) : chart[k].name = name}

C18_InventoryChartSumsByLocation ==
    pc = "returned" =>
        /\ Len(result.inventoryChartData) = Cardinality(Locations)
        /\ \A location \in Locations :
               /\ Cardinality(EntriesNamed(result.inventoryChartData, location)) = 1
               /\ \A k \in EntriesNamed(result.inventoryChartData, location) :
                      result.inventoryChartData[k].quantity
                          = Whole(SumOver(AtLocationIdx(location), QuantityAt))

(***************************************************************************)
(* C19: the volume chart has exactly one entry per distinct UTC day on     *)
(* which some order row has an order_date, named YYYY-MM-DD, with the      *)
(* number of order rows of that day; the entries ascend strictly by date   *)
(* whatever the input order, and orders without order_date are left out.   *)
(***************************************************************************)
DatedOrderIdx == {i \in OrderIdx : ~data[i].order_date.null}

\* the UTC calendar day of an order, as a day number
UtcDayAt == [i \in 1..Len(data) |-> data[i].order_date.time \div MinutesPerDay]

OrderDays == {UtcDayAt[i] : i \in DatedOrderIdx}

OnDayIdx(day) == {i \in DatedOrderIdx : UtcDayAt[i] = day}

C19_VolumeChartByAscendingDay ==
    pc = "returned" =>
        /\ Len(result.volumeChartData) = Cardinality(OrderDays)
        /\ \A k \in 1..Len(result.volumeChartData) :
               LET day == KthOf(OrderDays, k)
               IN  result.volumeChartData[k]
                       = [name |-> IsoDay(day * MinutesPerDay),
                          orders |-> Whole(Cardinality(OnDayIdx(day)))]

C19_Witness ==
    /\ pc = "returned"
    /\ \E i, j \in DatedOrderIdx : i < j /\ UtcDayAt[i] > UtcDayAt[j]
    /\ \E i, j \in DatedOrderIdx : i < j /\ UtcDayAt[i] = UtcDayAt[j]
    /\ Len(result.volumeChartData) = 2

(***************************************************************************)
(* C20: the column mapping preserves the original data: after the user     *)
(* confirms a mapping, every imported row carries every column of its CSV  *)
(* row, the columns not mapped to a canonical field included, with the     *)
(* original value (a column named like a canonical quantity or date field  *)
(* holds that field's converted value).                                    *)
(***************************************************************************)
ConvertedFields ==
    {"quantity", "order_date", "ship_date", "delivery_date", "required_shipping_date"}

HasOwn(row, key) == \E i \in 1..Len(row) : row[i].key = key

CarriesColumns(imported, source) ==
    \A i \in 1..Len(source) :
        \/ source[i].key \in ConvertedFields /\ HasOwn(imported, source[i].key)
        \/ \E j \in 1..Len(imported) : imported[j] = source[i]

ConfirmStep == showPreview /\ isMappingModalOpen /\ ~isMappingModalOpen' /\ originalData' # <<>>

C20_ImportKeepsSourceColumns ==
    [][ConfirmStep =>
         /\ Len(originalData') = Len(unmappedData)
         /\ \A i \in 1..Len(unmappedData) :
                CarriesColumns(originalData'[i], unmappedData[i])]_vars

(***************************************************************************)
(* C21: in the chat components, from the submission of a question until    *)
(* its AI call settles the input is disabled (isLoading is true) and no    *)
(* second request is started; once the call has settled, with an answer,   *)
(* an error message or a thrown error, isLoading is false again.           *)
(***************************************************************************)
C21_LoadingWhileInFlight ==
    /\ Len(pending) <= 1
    /\ isLoading <=> Len(pending) = 1
    /\ isLoading => InputDisabled

\* the second question was answered by the handler's catch, and the input is free
C21_Witness ==
    /\ asked = 2
    /\ pending = <<>>
    /\ ~isLoading
    /\ isDataLoaded
    /\ Len(messages) = 4
    /\ \/ messages[4] = [role |-> "assistant", content |-> SubmitReply("", "thrown")]
       \/ messages[4] = [isUser |-> FALSE, text |-> QueryReply("", "thrown")]

(***************************************************************************)
(* C26: in FloatingAiChat, under every interleaving of submitting, the     *)
(* arrival of a response and clearChat, the messages alternate user,       *)
(* assistant, user, ... starting with a user message.                      *)
(***************************************************************************)
C26_MessagesAlternate ==
    chatComponent = "FloatingAiChat" =>
        \A i \in 1..Len(messages) :
            messages[i].role = (IF i % 2 = 1 THEN "user" ELSE "assistant")

(***************************************************************************)
(* C22: when the server has no Gemini API key, every POST to /api/gemini   *)
(* is answered with status 401 and a JSON error body, and no upstream call *)
(* is made.                                                                *)
(***************************************************************************)
C22_MissingKeyGives401 ==
    (API_KEY = "" /\ req.method = "POST") =>
        /\ upstream = <<>>
        /\ hpc = "done"
        /\ Len(responses) = 1
        /\ responses[1].status = 401
        /\ responses[1].error # ""

C22_Witness ==
    /\ API_KEY = ""
    /\ req.method = "POST"
    /\ req.userContent = Str("Summarize risks")
    /\ Len(responses) = 1

(***************************************************************************)
(* C23: every request whose method is not POST is answered with status 405 *)
(* and no upstream call, with or without a key and whatever the body; and  *)
(* every request, on every path, receives exactly one response.            *)
(***************************************************************************)
C23_Safety ==
    /\ Len(responses) <= 1
    /\ hpc = "done" <=> Len(responses) = 1
    /\ (req # NoRequest /\ req.method # "POST") =>
           /\ upstream = <<>>
           /\ Len(responses) = 1
           /\ responses[1].status = 405

C23_NonPostGives405AndOneResponse ==
    /\ []C23_Safety
    /\ <>(Len(responses) = 1)

C23_Witness ==
    /\ req.method = "GET"
    /\ API_KEY = ""
    /\ req.userContent = Str("Summarize risks")
    /\ Len(responses) = 1

(***************************************************************************)
(* C24: the handler calls the fallback model gemini-1.5-pro exactly when   *)
(* its first upstream call returned 404 and the first model was not        *)
(* gemini-1.5-pro; it retries on no other status, makes at most two        *)
(* upstream calls, and the second call's outcome determines the response.  *)
(***************************************************************************)
FirstCallSettled == Len(upstream) >= 1 /\ hpc \notin {"idle", "first call"}

\* the response that the outcome of an upstream call stands for
ExpectedResponse(r) ==
    [status |-> (IF r.threw THEN 500
                 ELSE IF r.status < 200 \/ r.status > 299 THEN r.status
                 ELSE IF r.text = "" THEN 502
                 ELSE 200),
     text |-> (IF ~r.threw /\ r.status = 200 THEN r.text ELSE "")]

C24_FallbackOnlyOn404 ==
    /\ Len(upstream) <= 2
    /\ FirstCallSettled =>
           (Len(upstream) = 2 <=>
                /\ ~upstream[1].result.threw
                /\ upstream[1].result.status = 404
                /\ upstream[1].model # "gemini-1.5-pro")
    /\ Len(upstream) = 2 => upstream[2].model = "gemini-1.5-pro"
    /\ (hpc = "done" /\ Len(upstream) = 2) =>
           /\ responses[1].status = ExpectedResponse(upstream[2].result).status
           /\ responses[1].text = ExpectedResponse(upstream[2].result).text

C24_Witness ==
    /\ hpc = "done"
    /\ Len(upstream) = 2
    /\ upstream[1].model = "gemini-2.0-flash"
    /\ upstream[2].result.status = 429
    /\ responses[1].status = 429

(***************************************************************************)
(* C29: whenever the handler responds 200, modelUsed names the model whose *)
(* upstream call produced the returned text: gemini-1.5-pro when the       *)
(* primary model returned 404 and the retry succeeded.                     *)
(***************************************************************************)
C29_ModelUsedNamesAnsweringModel ==
    (hpc = "done" /\ responses[1].status = 200) =>
        responses[1].modelUsed = upstream[Len(upstream)].model

(***************************************************************************)
(* C25: with data loaded, a click on a status segment that is not the      *)
(* active filter shows exactly the orders with that status, and a click on *)
(* the status that is the active filter restores all orders, for every     *)
(* status value present in the chart; so the table is always all orders or *)
(* the orders of the status clicked last.                                  *)
(***************************************************************************)
AllOrderRows == SelectSeq(data, LAMBDA row : row.type = "order")

OrderRowsWithStatus(status) ==
    SelectSeq(data, LAMBDA row : row.type = "order" /\ row.status = status)

\* the table shows the orders of one status and not all orders
ActiveFilter(status) ==
    filteredOrders = OrderRowsWithStatus(status) /\ filteredOrders # AllOrderRows

C25_ClickFiltersOrRestores ==
    [][clicks' = clicks + 1 =>
          IF ActiveFilter(clicked')
          THEN filteredOrders' = AllOrderRows
          ELSE filteredOrders' = OrderRowsWithStatus(clicked')]_vars

(***************************************************************************)
(* C27: when a second file is uploaded before the parse of the first has   *)
(* completed, then once both parse callbacks have run the mapping modal    *)
(* holds the rows and headers of the file uploaded last and the upload     *)
(* error reflects that file, in whichever order the parses complete.       *)
(***************************************************************************)
\* the callback of the last parse in flight has run
LastParseCompletes == Len(parsing) = 1 /\ parsing' = <<>>

C27_ModalHoldsLatestFile ==
    [][LastParseCompletes =>
          IF Len(lastFile) = 0
          THEN /\ uploadError' # ""
               /\ unmappedData' = <<>>
               /\ ~isMappingModalOpen'
          ELSE /\ uploadError' = ""
               /\ unmappedData' = lastFile
               /\ csvHeaders' = ObjectKeys(lastFile[1])
               /\ isMappingModalOpen']_vars

(***************************************************************************)
(* C28: data is imported only when the current mapping has been previewed  *)
(* and maps every required field to a CSV column: after any sequence of    *)
(* mapping changes, header changes, previews and confirm attempts,         *)
(* showPreview implies that all required fields are mapped.                *)
(***************************************************************************)
C28_PreviewImpliesRequiredMapped ==
    showPreview => ~missingRequired

(***************************************************************************)
(* C30: whenever setRuntimeApiKey returns success: false (the key is       *)
(* shorter than 10 characters after trimming, storing it fails, or the     *)
(* client cannot be initialised), the service state is as before the call: *)
(* runtimeApiKey, the key kept in localStorage, the client ai, and with    *)
(* them isAiEnabled() and getActiveApiKeySource(), are unchanged.          *)
(***************************************************************************)
C30_FailureLeavesStateUnchanged ==
    [][(keyCalls' = keyCalls + 1 /\ ~keyResult'.success) =>
          /\ runtimeApiKey' = runtimeApiKey
          /\ localStorageKey' = localStorageKey
          /\ ai' = ai
          /\ isAiEnabled' = isAiEnabled
          /\ getActiveApiKeySource' = getActiveApiKeySource]_vars

====
